---- MODULE Spec2Model ----
(***************************************************************************)
(* Model of the bingo-card validator (src/app.py): the cell tokenizer      *)
(* parse_numbers, the table parser parse_text_table, the per-card          *)
(* validator validate_card and the duplicate-marking pass of validate.     *)
(*                                                                         *)
(* Strings that the code takes apart (the raw text, its lines, fields and  *)
(* cells) are sequences of one-character strings.  A token is <<n>> for    *)
(* the integer n and <<>> for Python's None.  A message is the sequence of *)
(* the pieces the code's f-strings concatenate.                            *)
(*                                                                         *)
(* Three specifications share the variables:                               *)
(*   SpecParse  parse_text_table as a loop over the lines of a text        *)
(*   SpecCard   validate_card applied to one card                          *)
(*   SpecBatch  the validate handler from the parsed cards on              *)
(***************************************************************************)
EXTENDS Integers, Sequences, FiniteSets, TLC

VARIABLES
    \* parse_text_table
    text, lines, li, header_found, data_lines, ppc,
    \* validate_card
    card, errors, result, cpc,
    \* validate
    cards, card_results, fingerprint_map, duplicate_groups, gi, mi, vpc

vars == <<text, lines, li, header_found, data_lines, ppc,
          card, errors, result, cpc,
          cards, card_results, fingerprint_map, duplicate_groups, gi, mi, vpc>>

parseVars == <<text, lines, li, header_found, data_lines, ppc>>
cardVars == <<card, errors, result, cpc>>
batchVars == <<cards, card_results, fingerprint_map, duplicate_groups, gi, mi, vpc>>

----------------------------------------------------------------------------
(* Characters and the string primitives of Python the code relies on.      *)

\* the characters str.isspace() and the regex class \s accept
Whitespace == {" ", "\t", "\n", "\r"}

\* the line boundaries of str.splitlines()
LineBreaks == {"\n", "\r"}

Digits == {"0", "1", "2", "3", "4", "5", "6", "7", "8", "9"}

DigitVal(c) ==
    CASE c = "0" -> 0 [] c = "1" -> 1 [] c = "2" -> 2 [] c = "3" -> 3
      [] c = "4" -> 4 [] c = "5" -> 5 [] c = "6" -> 6 [] c = "7" -> 7
      [] c = "8" -> 8 [] c = "9" -> 9

\* re.IGNORECASE folding, for the letters of the header pattern
Lower(c) ==
    CASE c = "C" -> "c" [] c = "A" -> "a" [] c = "R" -> "r" [] c = "D" -> "d"
      [] OTHER -> c

RECURSIVE LStrip(_)
LStrip(s) ==
    IF s # <<>> /\ Head(s) \in Whitespace THEN LStrip(Tail(s)) ELSE s

RECURSIVE RStrip(_)
RStrip(s) ==
    IF s # <<>> /\ s[Len(s)] \in Whitespace
    THEN RStrip(SubSeq(s, 1, Len(s) - 1))
    ELSE s

\* str.strip()
Strip(s) == RStrip(LStrip(s))

\* index of the first character of s that is in set, Len(s)+1 when none
RECURSIVE FirstIn(_, _, _)
FirstIn(s, set, i) ==
    IF i > Len(s) \/ s[i] \in set THEN i ELSE FirstIn(s, set, i + 1)

\* index of the first character of s from i on that is not in set
RECURSIVE FirstNotIn(_, _, _)
FirstNotIn(s, set, i) ==
    IF i > Len(s) \/ s[i] \notin set THEN i ELSE FirstNotIn(s, set, i + 1)

\* str.splitlines(): "\r\n" is one boundary, no empty last line
RECURSIVE splitlines(_)
splitlines(s) ==
    IF s = <<>> THEN <<>>
    ELSE LET k == FirstIn(s, LineBreaks, 1)
         IN  IF k > Len(s) THEN <<s>>
             ELSE LET skip == IF s[k] = "\r" /\ k < Len(s) /\ s[k + 1] = "\n"
                              THEN 2 ELSE 1
                  IN  <<SubSeq(s, 1, k - 1)>>
                          \o splitlines(SubSeq(s, k + skip, Len(s)))

\* re.split(r'[seps]+', s): the pieces between maximal runs of separators,
\* the empty pieces at either end included
RECURSIVE re_split(_, _)
re_split(seps, s) ==
    LET k == FirstIn(s, seps, 1)
    IN  IF k > Len(s) THEN <<s>>
        ELSE <<SubSeq(s, 1, k - 1)>>
                 \o re_split(seps, SubSeq(s, FirstNotIn(s, seps, k), Len(s)))

\* int(p) succeeds: an optional sign, then digits in which single
\* underscores may separate digits
IsIntLiteral(p) ==
    LET body == IF p # <<>> /\ Head(p) \in {"+", "-"} THEN Tail(p) ELSE p
    IN  /\ body # <<>>
        /\ \A k \in 1..Len(body) : body[k] \in Digits \cup {"_"}
        /\ body[1] \in Digits
        /\ body[Len(body)] \in Digits
        /\ \A k \in 1..(Len(body) - 1) : ~(body[k] = "_" /\ body[k + 1] = "_")

RECURSIVE DigitsValue(_, _)
DigitsValue(body, acc) ==
    IF body = <<>> THEN acc
    ELSE IF Head(body) = "_" THEN DigitsValue(Tail(body), acc)
    ELSE DigitsValue(Tail(body), 10 * acc + DigitVal(Head(body)))

\* the value int(p) returns
IntValue(p) ==
    IF Head(p) = "-" THEN 0 - DigitsValue(Tail(p), 0)
    ELSE IF Head(p) = "+" THEN DigitsValue(Tail(p), 0)
    ELSE DigitsValue(p, 0)

----------------------------------------------------------------------------
(* Tokens                                                                   *)

None == <<>>
IntTok(n) == <<n>>
IsNone(tok) == tok = None
Num(tok) == tok[1]

----------------------------------------------------------------------------
(* parse_numbers (src/app.py 10-23)                                         *)

RECURSIVE ConvertParts(_)
ConvertParts(parts) ==
    IF parts = <<>> THEN <<>>
    ELSE LET p == Head(parts)
         IN  IF p = <<>> THEN ConvertParts(Tail(parts))
             ELSE IF IsIntLiteral(p)
                  THEN <<IntTok(IntValue(p))>> \o ConvertParts(Tail(parts))
                  ELSE <<None>> \o ConvertParts(Tail(parts))

parse_numbers(cell) ==
    IF cell = <<>> \/ Strip(cell) = <<>> THEN <<>>
    ELSE ConvertParts(re_split({","} \cup Whitespace, Strip(cell)))

----------------------------------------------------------------------------
(* parse_text_table (src/app.py 64-103)                                     *)

\* re.match(r'^card\s', line, re.IGNORECASE)
IsHeader(line) ==
    /\ Len(line) >= 5
    /\ <<Lower(line[1]), Lower(line[2]), Lower(line[3]), Lower(line[4])>>
           = <<"c", "a", "r", "d">>
    /\ line[5] \in Whitespace

\* re.split(r'\s+', line)
Fields(line) == re_split(Whitespace, line)

\* the I and B cells taken in the wrong order
CardOfPartsSwapped(parts) ==
    <<parts[1], parse_numbers(parts[3]), parse_numbers(parts[2]),
      parse_numbers(parts[4]), parse_numbers(parts[5]), parse_numbers(parts[6])>>

\* the tuple appended to data_lines (lines 88-101)
CardOfParts(parts) ==
    <<parts[1], parse_numbers(parts[2]), parse_numbers(parts[3]),
      parse_numbers(parts[4]), parse_numbers(parts[5]), parse_numbers(parts[6])>>

\* the lines a text is assembled from
LineSet ==
    { <<"C", "a", "r", "d", " ", "I", "D">>,
      <<"c", "A", "r", "D", "\t", "x", "\r">>,
      <<"c", "a", "r", "d">>,
      <<"C", "a", "r", "d", "s", " ", "1", " ", "2", " ", "3", " ", "4", " ", "5">>,
      <<"c", "a", "r", "d", " ", "1", " ", "2", " ", "3", " ", "4", " ", "5">>,
      <<" ", "7", " ", "1", ",", "2", " ", "x", " ", ",", " ", "-", "4", "\t", "0", "5", ",", " ">>,
      <<"8", " ", "1", " ", "2">>,
      <<"9", " ", "1", " ", "2", " ", "3", " ", "4", " ", "5", " ", "6">>,
      <<" ">> }

MaxLines == 3

RECURSIVE JoinLines(_)
JoinLines(ls) ==
    IF ls = <<>> THEN <<>>
    ELSE IF Len(ls) = 1 THEN ls[1]
    ELSE ls[1] \o <<"\n">> \o JoinLines(Tail(ls))

Texts == { JoinLines(ls) : ls \in UNION { [1..n -> LineSet] : n \in 0..MaxLines } }

CardIdle == /\ card = <<>> /\ errors = <<>> /\ result = <<>> /\ cpc = "idle"

BatchIdle ==
    /\ cards = <<>> /\ card_results = <<>> /\ fingerprint_map = <<>>
    /\ duplicate_groups = <<>> /\ gi = 0 /\ mi = 0 /\ vpc = "idle"

ParseIdle ==
    /\ text = <<>> /\ lines = <<>> /\ li = 0 /\ header_found = FALSE
    /\ data_lines = <<>> /\ ppc = "idle"

InitParse ==
    /\ text \in Texts
    /\ lines = <<>>
    /\ li = 0
    /\ header_found = FALSE
    /\ data_lines = <<>>
    /\ ppc = "start"
    /\ CardIdle
    /\ BatchIdle

\* line 69-71
ParseStart ==
    /\ ppc = "start"
    /\ lines' = splitlines(Strip(text))
    /\ li' = 1
    /\ header_found' = FALSE
    /\ data_lines' = <<>>
    /\ ppc' = "loop"
    /\ UNCHANGED <<text, cardVars, batchVars>>

\* the line the loop is at, after line 74
CurLine == Strip(lines[li])

InLoop == ppc = "loop" /\ li <= Len(lines)

\* lines 75-76
SkipBlank ==
    /\ InLoop
    /\ CurLine = <<>>
    /\ li' = li + 1
    /\ UNCHANGED <<text, lines, header_found, data_lines, ppc, cardVars, batchVars>>

\* lines 79-81
HeaderLine ==
    /\ InLoop
    /\ CurLine # <<>>
    /\ IsHeader(CurLine)
    /\ header_found' = TRUE
    /\ li' = li + 1
    /\ UNCHANGED <<text, lines, data_lines, ppc, cardVars, batchVars>>

\* line 83, the condition false
BeforeHeader ==
    /\ InLoop
    /\ CurLine # <<>>
    /\ ~IsHeader(CurLine)
    /\ ~header_found
    /\ li' = li + 1
    /\ UNCHANGED <<text, lines, header_found, data_lines, ppc, cardVars, batchVars>>

\* lines 84-86
SkipMalformed ==
    /\ InLoop
    /\ CurLine # <<>>
    /\ ~IsHeader(CurLine)
    /\ header_found
    /\ Len(Fields(CurLine)) < 6
    /\ li' = li + 1
    /\ UNCHANGED <<text, lines, header_found, data_lines, ppc, cardVars, batchVars>>

\* a record appended whether or not a header was seen
AppendCardNoLatch ==
    /\ InLoop
    /\ CurLine # <<>>
    /\ ~IsHeader(CurLine)
    /\ Len(Fields(CurLine)) >= 6
    /\ data_lines' = Append(data_lines, CardOfParts(Fields(CurLine)))
    /\ li' = li + 1
    /\ UNCHANGED <<text, lines, header_found, ppc, cardVars, batchVars>>

\* lines 84-101
AppendCard ==
    /\ InLoop
    /\ CurLine # <<>>
    /\ ~IsHeader(CurLine)
    /\ header_found
    /\ Len(Fields(CurLine)) >= 6
    /\ data_lines' = Append(data_lines, CardOfParts(Fields(CurLine)))
    /\ li' = li + 1
    /\ UNCHANGED <<text, lines, header_found, ppc, cardVars, batchVars>>

\* line 103
ParseReturn ==
    /\ ppc = "loop"
    /\ li > Len(lines)
    /\ ppc' = "done"
    /\ UNCHANGED <<text, lines, li, header_found, data_lines, cardVars, batchVars>>

NextParse ==
    \/ ParseStart
    \/ SkipBlank
    \/ HeaderLine
    \/ BeforeHeader
    \/ SkipMalformed
    \/ AppendCard
    \/ ParseReturn

SpecParse == InitParse /\ [][NextParse]_vars

----------------------------------------------------------------------------
(* validate_card (src/app.py 25-62)                                         *)

\* the G range one too wide
columnsWideG ==
    << [name |-> "B", low |-> 1,  high |-> 15],
       [name |-> "I", low |-> 16, high |-> 30],
       [name |-> "N", low |-> 31, high |-> 45],
       [name |-> "G", low |-> 46, high |-> 61],
       [name |-> "O", low |-> 61, high |-> 75] >>

\* the columns table, lines 30-36
columns ==
    << [name |-> "B", low |-> 1,  high |-> 15],
       [name |-> "I", low |-> 16, high |-> 30],
       [name |-> "N", low |-> 31, high |-> 45],
       [name |-> "G", low |-> 46, high |-> 60],
       [name |-> "O", low |-> 61, high |-> 75] >>

\* the error strings, as the pieces their f-strings concatenate
LengthError(col_name, n) == <<col_name, ": expected 5 numbers, got ", ToString(n)>>
\* the source spells the hyphen of non-numeric as U+2011
NonNumericError(col_name) == <<col_name, ": non-numeric value">>
CenterError(col_name, num) == <<col_name, " center should be 0, got ", ToString(num)>>
RangeError(col_name, num, low, high) ==
    <<col_name, ": ", ToString(num), " out of range (", ToString(low), "-",
      ToString(high), ")">>
DuplicateError(col_name, num) == <<col_name, ": duplicate number ", ToString(num)>>

\* the third position counted from 1
IsFreeSpaceOneBased(col_name, pos) == col_name = "N" /\ pos = 3

\* the free-space test of line 50; pos is 0-based as in enumerate
IsFreeSpace(col_name, pos) == col_name = "N" /\ pos = 2

\* the duplicate check only made when the range check passes
RECURSIVE TokenErrorsElif(_, _, _, _, _)
TokenErrorsElif(col, numbers, pos, seen, errs) ==
    IF pos >= Len(numbers) THEN errs
    ELSE LET tok == numbers[pos + 1]
         IN  IF IsNone(tok)
             THEN TokenErrorsElif(col, numbers, pos + 1, seen,
                                  Append(errs, NonNumericError(col.name)))
             ELSE LET num == Num(tok)
                  IN  IF col.name = "N" /\ pos = 2
                      THEN TokenErrorsElif(col, numbers, pos + 1, seen,
                               IF num # 0
                               THEN Append(errs, CenterError(col.name, num))
                               ELSE errs)
                      ELSE TokenErrorsElif(col, numbers, pos + 1, seen \cup {num},
                               IF ~(col.low <= num /\ num <= col.high)
                               THEN Append(errs, RangeError(col.name, num,
                                                            col.low, col.high))
                               ELSE IF num \in seen
                                    THEN Append(errs, DuplicateError(col.name, num))
                                    ELSE errs)

\* the free-space test made before the test for None
RECURSIVE TokenErrorsFreeFirst(_, _, _, _, _)
TokenErrorsFreeFirst(col, numbers, pos, seen, errs) ==
    IF pos >= Len(numbers) THEN errs
    ELSE LET tok == numbers[pos + 1]
         IN  IF col.name = "N" /\ pos = 2
             THEN TokenErrorsFreeFirst(col, numbers, pos + 1, seen,
                      IF tok # IntTok(0)
                      THEN Append(errs, <<col.name, " center should be 0, got ",
                                          IF IsNone(tok) THEN "None"
                                          ELSE ToString(Num(tok))>>)
                      ELSE errs)
             ELSE IF IsNone(tok)
                  THEN TokenErrorsFreeFirst(col, numbers, pos + 1, seen,
                                            Append(errs, NonNumericError(col.name)))
                  ELSE LET num == Num(tok)
                           e1 == IF ~(col.low <= num /\ num <= col.high)
                                 THEN Append(errs, RangeError(col.name, num,
                                                              col.low, col.high))
                                 ELSE errs
                           e2 == IF num \in seen
                                 THEN Append(e1, DuplicateError(col.name, num))
                                 ELSE e1
                       IN  TokenErrorsFreeFirst(col, numbers, pos + 1,
                                                seen \cup {num}, e2)

\* the loop of lines 45-58 from position pos on, with the seen set so far
RECURSIVE TokenErrors(_, _, _, _, _)
TokenErrors(col, numbers, pos, seen, errs) ==
    IF pos >= Len(numbers) THEN errs
    ELSE LET tok == numbers[pos + 1]
         IN  IF IsNone(tok)
             THEN TokenErrors(col, numbers, pos + 1, seen,
                              Append(errs, NonNumericError(col.name)))
             ELSE LET num == Num(tok)
                  IN  IF IsFreeSpace(col.name, pos)
                      THEN TokenErrors(col, numbers, pos + 1, seen,
                               IF num # 0
                               THEN Append(errs, CenterError(col.name, num))
                               ELSE errs)
                      ELSE LET e1 == IF ~(col.low <= num /\ num <= col.high)
                                     THEN Append(errs, RangeError(col.name, num,
                                                                  col.low, col.high))
                                     ELSE errs
                               e2 == IF num \in seen
                                     THEN Append(e1, DuplicateError(col.name, num))
                                     ELSE e1
                           IN  TokenErrors(col, numbers, pos + 1,
                                           seen \cup {num}, e2)

\* the length error recorded without leaving the iteration
ColumnErrorsNoContinue(col, numbers) ==
    IF Len(numbers) # 5
    THEN <<LengthError(col.name, Len(numbers))>>
             \o TokenErrors(col, numbers, 0, {}, <<>>)
    ELSE TokenErrors(col, numbers, 0, {}, <<>>)

\* one iteration of the loop of line 39: the errors one column adds
ColumnErrors(col, numbers) ==
    IF Len(numbers) # 5
    THEN <<LengthError(col.name, Len(numbers))>>
    ELSE TokenErrors(col, numbers, 0, {}, <<>>)

\* the errors list when the loop of line 39 ends
CardErrors(c) ==
    ColumnErrors(columns[1], c[2]) \o ColumnErrors(columns[2], c[3])
        \o ColumnErrors(columns[3], c[4]) \o ColumnErrors(columns[4], c[5])
        \o ColumnErrors(columns[5], c[6])

\* "; ".join(errors)
RECURSIVE JoinErrors(_)
JoinErrors(errs) ==
    IF errs = <<>> THEN <<>>
    ELSE IF Len(errs) = 1 THEN errs[1]
    ELSE errs[1] \o <<"; ">> \o JoinErrors(Tail(errs))

\* lines 60-62: the pair (is_valid, message)
validate_card(c) ==
    LET errs == CardErrors(c)
    IN  IF errs # <<>>
        THEN <<FALSE, <<"Card ", c[1], ": ">> \o JoinErrors(errs)>>
        ELSE <<TRUE, <<"Card ", c[1], ": Valid">>>>

\* ---- the cards validate_card is applied to ----

MaxColLen == 6
MaxMut == 2

CardIds == {"7"}

\* a column that passes every check, continued to any length
Base(k, i) ==
    IF k = 3 /\ i = 3 THEN IntTok(0) ELSE IntTok(columns[k].low + i - 1)

GoodCol(k) == [i \in 1..5 |-> Base(k, i)]

FaultyCol(k) ==
    <<IntTok(columns[k].high + 1), IntTok(columns[k].high + 1), None,
      IntTok(columns[k].low), IntTok(columns[k].low)>>

ShortCol(k) == <<IntTok(columns[k].low), IntTok(columns[k].low)>>

OtherKinds == {"good", "faulty"}

\* the other columns all pass, or I and G are short and the rest faulty
OtherCol(kind, k) ==
    CASE kind = "good" -> GoodCol(k)
      [] kind = "faulty" -> IF k \in {2, 4} THEN ShortCol(k) ELSE FaultyCol(k)

TokDomain(k) ==
    { None, IntTok(0), IntTok(columns[k].low), IntTok(columns[k].high),
      IntTok(columns[k].high + 1) }

\* a column of length l that differs from the passing column in the
\* positions P, where it holds the tokens f
ColumnInput(k, l, P, f) == [i \in 1..l |-> IF i \in P THEN f[i] ELSE Base(k, i)]

\* the card whose column k is col and whose other columns are of one kind
CardInput(id, k, col, kind) ==
    <<id>> \o [j \in 1..5 |-> IF j = k THEN col ELSE OtherCol(kind, j)]

\* one column of length up to MaxColLen differs from the passing column in
\* at most MaxMut positions, the other four are of one kind
InitCard ==
    /\ \E id \in CardIds, k \in 1..5, kind \in OtherKinds, l \in 0..MaxColLen :
         \E P \in { Q \in SUBSET (1..l) : Cardinality(Q) <= MaxMut } :
           \E f \in [P -> TokDomain(k)] :
             card = CardInput(id, k, ColumnInput(k, l, P, f), kind)
    /\ errors = <<>>
    /\ result = <<>>
    /\ cpc = "call"
    /\ ParseIdle
    /\ BatchIdle

\* the call returns at line 61
ReturnInvalid ==
    /\ cpc = "call"
    /\ CardErrors(card) # <<>>
    /\ errors' = CardErrors(card)
    /\ result' = validate_card(card)
    /\ cpc' = "done"
    /\ UNCHANGED <<card, parseVars, batchVars>>

\* the call returns at line 62
ReturnValid ==
    /\ cpc = "call"
    /\ CardErrors(card) = <<>>
    /\ errors' = CardErrors(card)
    /\ result' = validate_card(card)
    /\ cpc' = "done"
    /\ UNCHANGED <<card, parseVars, batchVars>>

NextCard ==
    \/ ReturnInvalid
    \/ ReturnValid

SpecCard == InitCard /\ [][NextCard]_vars

----------------------------------------------------------------------------
(* validate (src/app.py 110-174), from the parsed cards on                  *)

\* ', '.join(ids)
RECURSIVE JoinIds(_)
JoinIds(ids) ==
    IF ids = <<>> THEN <<>>
    ELSE IF Len(ids) = 1 THEN <<ids[1]>>
    ELSE <<ids[1], ", ">> \o JoinIds(Tail(ids))

\* the B column left out of the fingerprint
FingerprintWithoutB(r) == <<r[3], r[4], r[5], r[6]>>

\* line 145
Fingerprint(r) == <<r[2], r[3], r[4], r[5], r[6]>>

\* [cid for cid, _ in id_list if cid != card_id], line 155
RECURSIVE OtherIds(_, _)
OtherIds(id_list, card_id) ==
    IF id_list = <<>> THEN <<>>
    ELSE IF Head(id_list)[1] # card_id
         THEN <<Head(id_list)[1]>> \o OtherIds(Tail(id_list), card_id)
         ELSE OtherIds(Tail(id_list), card_id)

\* line 156
DuplicateMsg(other_ids) == <<"Duplicate of card(s) ">> \o JoinIds(other_ids)

\* [card_id for card_id, _ in id_list], line 152
GroupIds(id_list) == [k \in 1..Len(id_list) |-> id_list[k][1]]

\* fingerprint_map.setdefault(fingerprint, []).append((card_id, idx)); the
\* dict is the sequence of its entries in insertion order
SetDefaultAppend(map, fp, entry) ==
    IF \E k \in 1..Len(map) : map[k].fp = fp
    THEN [k \in 1..Len(map) |->
             IF map[k].fp = fp
             THEN [fp |-> fp, id_list |-> Append(map[k].id_list, entry)]
             ELSE map[k]]
    ELSE Append(map, [fp |-> fp, id_list |-> <<entry>>])

\* lines 167-168
RECURSIVE ValidMsgs(_)
ValidMsgs(rs) ==
    IF rs = <<>> THEN <<>>
    ELSE IF Head(rs)[7] THEN <<Head(rs)[8]>> \o ValidMsgs(Tail(rs))
    ELSE ValidMsgs(Tail(rs))

RECURSIVE InvalidMsgs(_)
InvalidMsgs(rs) ==
    IF rs = <<>> THEN <<>>
    ELSE IF ~Head(rs)[7] THEN <<Head(rs)[8]>> \o InvalidMsgs(Tail(rs))
    ELSE InvalidMsgs(Tail(rs))

\* ---- the batches validate is run on ----

MaxBatch == 4

BatchIds == {"1", "2"}

\* a valid content and two invalid ones that differ in where the invalid
\* token is
BatchContents ==
    { [j \in 1..5 |-> GoodCol(j)],
      [j \in 1..5 |-> IF j = 1 THEN <<None, IntTok(2), IntTok(3), IntTok(4), IntTok(5)>>
                      ELSE GoodCol(j)],
      [j \in 1..5 |-> IF j = 1 THEN <<IntTok(1), None, IntTok(3), IntTok(4), IntTok(5)>>
                      ELSE GoodCol(j)] }

BatchCards == { <<id>> \o c : id \in BatchIds, c \in BatchContents }

InitBatch ==
    /\ \E n \in 0..MaxBatch : cards \in [1..n -> BatchCards]
    /\ card_results = <<>>
    /\ fingerprint_map = <<>>
    /\ duplicate_groups = <<>>
    /\ gi = 0
    /\ mi = 0
    /\ vpc = "parsed"
    /\ ParseIdle
    /\ CardIdle

\* lines 130-132: nothing was parsed
NoCards ==
    /\ vpc = "parsed"
    /\ cards = <<>>
    /\ vpc' = "done"
    /\ UNCHANGED <<cards, card_results, fingerprint_map, duplicate_groups, gi, mi,
                   parseVars, cardVars>>

\* line 135
StartValidation ==
    /\ vpc = "parsed"
    /\ cards # <<>>
    /\ card_results' = <<>>
    /\ vpc' = "validate"
    /\ UNCHANGED <<cards, fingerprint_map, duplicate_groups, gi, mi,
                   parseVars, cardVars>>

\* lines 136-139, one iteration
ValidateNext ==
    /\ vpc = "validate"
    /\ Len(card_results) < Len(cards)
    /\ LET c == cards[Len(card_results) + 1]
       IN  card_results' = Append(card_results, c \o validate_card(c))
    /\ UNCHANGED <<cards, fingerprint_map, duplicate_groups, gi, mi, vpc,
                   parseVars, cardVars>>

\* line 142
StartFingerprints ==
    /\ vpc = "validate"
    /\ Len(card_results) = Len(cards)
    /\ fingerprint_map' = <<>>
    /\ gi' = 0
    /\ vpc' = "fingerprint"
    /\ UNCHANGED <<cards, card_results, duplicate_groups, mi, parseVars, cardVars>>

\* lines 143-146, one iteration; gi is idx
FingerprintNext ==
    /\ vpc = "fingerprint"
    /\ gi < Len(card_results)
    /\ LET r == card_results[gi + 1]
       IN  fingerprint_map' = SetDefaultAppend(fingerprint_map, Fingerprint(r),
                                               <<r[1], gi>>)
    /\ gi' = gi + 1
    /\ UNCHANGED <<cards, card_results, duplicate_groups, mi, vpc,
                   parseVars, cardVars>>

\* line 149
StartMarking ==
    /\ vpc = "fingerprint"
    /\ gi = Len(card_results)
    /\ duplicate_groups' = <<>>
    /\ gi' = 1
    /\ mi' = 0
    /\ vpc' = "mark"
    /\ UNCHANGED <<cards, card_results, fingerprint_map, parseVars, cardVars>>

\* from here on gi is the position of the loop of line 150 in the dict and
\* mi the position of the loop of line 154 in id_list (0: not entered)
InGroup == vpc = "mark" /\ gi <= Len(fingerprint_map)

IdList == fingerprint_map[gi].id_list

\* line 151, the condition false
SkipSingleton ==
    /\ InGroup
    /\ mi = 0
    /\ ~(Len(IdList) > 1)
    /\ gi' = gi + 1
    /\ UNCHANGED <<cards, card_results, fingerprint_map, duplicate_groups, mi, vpc,
                   parseVars, cardVars>>

\* lines 151-152
ReportGroup ==
    /\ InGroup
    /\ mi = 0
    /\ Len(IdList) > 1
    /\ duplicate_groups' = Append(duplicate_groups, GroupIds(IdList))
    /\ mi' = 1
    /\ UNCHANGED <<cards, card_results, fingerprint_map, gi, vpc,
                   parseVars, cardVars>>

\* the message of an invalid card replaced, not extended
MarkedResultOverwrite(rs, id_list, member) ==
    LET duplicate_msg == DuplicateMsg(OtherIds(id_list, member[1]))
        old == rs[member[2] + 1]
    IN  <<old[1], old[2], old[3], old[4], old[5], old[6], FALSE,
          <<"Valid but ">> \o duplicate_msg>>

\* the result the iteration of lines 154-164 for the member (card_id, idx)
\* writes to card_results[idx]
MarkedResult(rs, id_list, member) ==
    LET duplicate_msg == DuplicateMsg(OtherIds(id_list, member[1]))
        old == rs[member[2] + 1]
    IN  IF old[7]
        THEN <<old[1], old[2], old[3], old[4], old[5], old[6], FALSE,
               <<"Valid but ">> \o duplicate_msg>>
        ELSE <<old[1], old[2], old[3], old[4], old[5], old[6], FALSE,
               old[8] \o <<"; ">> \o duplicate_msg>>

InMember == InGroup /\ mi >= 1 /\ mi <= Len(IdList)

\* lines 154-161, one iteration with old_valid true
MarkWasValid ==
    /\ InMember
    /\ card_results[IdList[mi][2] + 1][7]
    /\ card_results' = [card_results EXCEPT ![IdList[mi][2] + 1] =
                            MarkedResult(card_results, IdList, IdList[mi])]
    /\ mi' = mi + 1
    /\ UNCHANGED <<cards, fingerprint_map, duplicate_groups, gi, vpc,
                   parseVars, cardVars>>

\* lines 154-164, one iteration with old_valid false
MarkWasInvalid ==
    /\ InMember
    /\ ~card_results[IdList[mi][2] + 1][7]
    /\ card_results' = [card_results EXCEPT ![IdList[mi][2] + 1] =
                            MarkedResult(card_results, IdList, IdList[mi])]
    /\ mi' = mi + 1
    /\ UNCHANGED <<cards, fingerprint_map, duplicate_groups, gi, vpc,
                   parseVars, cardVars>>

\* the loop of line 154 ends
EndGroup ==
    /\ InGroup
    /\ mi > Len(IdList)
    /\ gi' = gi + 1
    /\ mi' = 0
    /\ UNCHANGED <<cards, card_results, fingerprint_map, duplicate_groups, vpc,
                   parseVars, cardVars>>

\* the loop of line 150 ends; lines 167-174 only read the results
FinishBatch ==
    /\ vpc = "mark"
    /\ gi > Len(fingerprint_map)
    /\ vpc' = "done"
    /\ UNCHANGED <<cards, card_results, fingerprint_map, duplicate_groups, gi, mi,
                   parseVars, cardVars>>

NextBatch ==
    \/ NoCards
    \/ StartValidation
    \/ ValidateNext
    \/ StartFingerprints
    \/ FingerprintNext
    \/ StartMarking
    \/ SkipSingleton
    \/ ReportGroup
    \/ MarkWasValid
    \/ MarkWasInvalid
    \/ EndGroup
    \/ FinishBatch

SpecBatch == InitBatch /\ [][NextBatch]_vars

----------------------------------------------------------------------------
(* Properties of parse_text_table, checked under SpecParse                  *)

\* line j of the text, trimmed
Trimmed(j) == Strip(lines[j])

\* some line among the first k matches the header pattern
HeaderWithin(k) == \E j \in 1..k : IsHeader(Trimmed(j))

\* the number of the first line matching the header pattern, if any
FirstHeaderLine == CHOOSE j \in 1..Len(lines) :
                       IsHeader(Trimmed(j)) /\ ~HeaderWithin(j - 1)

\* the Card Record a data line stands for: identifier = field 1, columns
\* B, I, N, G, O = the tokens of fields 2 to 6
RecordOfLine(j) ==
    LET f == Fields(Trimmed(j))
    IN  <<f[1], parse_numbers(f[2]), parse_numbers(f[3]), parse_numbers(f[4]),
          parse_numbers(f[5]), parse_numbers(f[6])>>

\* non-blank, after a header line, at least 6 fields
FullLineAfterHeader(j) ==
    /\ Trimmed(j) # <<>>
    /\ HeaderWithin(j - 1)
    /\ Len(Fields(Trimmed(j))) >= 6

\* the records of the lines among the first k whose number is in Y, in order
RECURSIVE RecordsUpTo(_, _)
RecordsUpTo(k, Y) ==
    IF k = 0 THEN <<>>
    ELSE IF k \in Y THEN Append(RecordsUpTo(k - 1, Y), RecordOfLine(k))
    ELSE RecordsUpTo(k - 1, Y)

Scanning == ppc \in {"loop", "done"}

\* C3: header recognition is a latch.  While scanning, header_found is set
\* exactly when one of the lines scanned so far matched the header pattern,
\* no record has been emitted while it is unset, a step emits a record only
\* from a line that comes after the first header line, a step never resets
\* the latch, and when no line matches the header pattern the result is the
\* empty sequence.
C3_HeaderLatch ==
    /\ [](Scanning =>
            /\ header_found <=> HeaderWithin(li - 1)
            /\ ~header_found => data_lines = <<>>
            /\ (ppc = "done" /\ ~HeaderWithin(Len(lines))) => data_lines = <<>>)
    /\ [][(Scanning /\ data_lines' # data_lines)
              => (header_found /\ FirstHeaderLine < li)]_vars
    /\ [][header_found => header_found']_vars

\* a line with 6 fields precedes the first header line and yields nothing,
\* a line after the header yields a record
C3_Witness ==
    /\ ppc = "done"
    /\ HeaderWithin(Len(lines))
    /\ \E j \in 1..Len(lines) :
          /\ j < FirstHeaderLine
          /\ Len(Fields(Trimmed(j))) >= 6
    /\ Len(data_lines) = 1

\* C4 as stated: after the latch has fired every non-blank line with at
\* least 6 fields yields exactly one record, in input order, and no other
\* line yields one.
C4_EveryFullLineYields ==
    Scanning => data_lines = RecordsUpTo(li - 1,
                    { j \in 1..Len(lines) : FullLineAfterHeader(j) })

YieldingLine(j) == FullLineAfterHeader(j) /\ ~IsHeader(Trimmed(j))

\* C4 amended: after the latch has fired a non-blank line is skipped when
\* it matches the header pattern itself or has fewer than 6 fields; every
\* other later non-blank line yields exactly one record (identifier =
\* field 1, columns = tokenized fields 2 to 6), in input order.
C4_FullNonHeaderLineYields ==
    Scanning => data_lines = RecordsUpTo(li - 1,
                    { j \in 1..Len(lines) : YieldingLine(j) })

\* a line with 6 fields that matches the header pattern follows the header
\* and is skipped, another line yields a record
C4_Witness ==
    /\ ppc = "done"
    /\ \E j \in 1..Len(lines) : FullLineAfterHeader(j) /\ IsHeader(Trimmed(j))
    /\ Len(data_lines) >= 1

----------------------------------------------------------------------------
(* Properties of validate_card, checked under SpecCard                      *)

Returned == cpc = "done"

\* the column rules as the specification's table states them
RuleName(k) ==
    CASE k = 1 -> "B" [] k = 2 -> "I" [] k = 3 -> "N" [] k = 4 -> "G" [] k = 5 -> "O"

RuleLow(k) ==
    CASE k = 1 -> 1 [] k = 2 -> 16 [] k = 3 -> 31 [] k = 4 -> 46 [] k = 5 -> 61

RuleHigh(k) ==
    CASE k = 1 -> 15 [] k = 2 -> 30 [] k = 3 -> 45 [] k = 4 -> 60 [] k = 5 -> 75

\* column k of the card and its token at the 1-based position p
Col(k) == card[k + 1]
Tok(k, p) == Col(k)[p]

\* position p of column k is the free space: N, index 2
Free(k, p) == k = 3 /\ p = 3

IsInt(k, p) == Tok(k, p) # None

InRange(k, p) == RuleLow(k) <= Tok(k, p)[1] /\ Tok(k, p)[1] <= RuleHigh(k)

\* an earlier integer token of the column, outside the free space, has the
\* same value
Repeats(k, p) ==
    \E q \in 1..(p - 1) : ~Free(k, q) /\ IsInt(k, q) /\ Tok(k, q) = Tok(k, p)

\* the errors of column k in the errors list, in order
ErrorsOf(k) == SelectSeq(errors, LAMBDA e : e[1] = RuleName(k))

IsLengthError(e) == e[2] = ": expected 5 numbers, got "
IsNonNumericError(e) == e[2] = ": non-numeric value"
IsCenterError(e) == e[2] = " center should be 0, got "
IsRangeError(e) == Len(e) >= 4 /\ e[2] = ": " /\ e[4] = " out of range ("
IsDuplicateError(e) == e[2] = ": duplicate number "

CountOf(k, Kind(_)) == Len(SelectSeq(ErrorsOf(k), Kind))

\* the errors the rules prescribe for position p of a length-5 column k
PrescribedAt(k, p) ==
    IF ~IsInt(k, p) THEN <<NonNumericError(RuleName(k))>>
    ELSE IF Free(k, p)
         THEN IF Tok(k, p)[1] # 0
              THEN <<CenterError(RuleName(k), Tok(k, p)[1])>>
              ELSE <<>>
         ELSE (IF ~InRange(k, p)
               THEN <<RangeError(RuleName(k), Tok(k, p)[1], RuleLow(k), RuleHigh(k))>>
               ELSE <<>>)
              \o (IF Repeats(k, p)
                  THEN <<DuplicateError(RuleName(k), Tok(k, p)[1])>>
                  ELSE <<>>)

PrescribedFor(k) ==
    PrescribedAt(k, 1) \o PrescribedAt(k, 2) \o PrescribedAt(k, 3)
        \o PrescribedAt(k, 4) \o PrescribedAt(k, 5)

\* the card meets every rule
WellFormed ==
    \A k \in 1..5 :
        /\ Len(Col(k)) = 5
        /\ \A p \in 1..5 :
              /\ IsInt(k, p)
              /\ IF Free(k, p) THEN Tok(k, p)[1] = 0 ELSE InRange(k, p)
        /\ \A p, q \in 1..5 :
              (p < q /\ ~Free(k, p) /\ ~Free(k, q)) => Tok(k, p) # Tok(k, q)

\* C5: the card is judged valid iff all five columns have exactly 5
\* tokens, none is the invalid marker, the N token at index 2 is 0, every
\* other token is in its column's range and the non-free-space tokens of
\* each column are pairwise distinct; a valid card's message is its
\* identifier followed by Valid, an invalid card's message lists the errors.
C5_ValidIffWellFormed ==
    Returned =>
        /\ result[1] <=> WellFormed
        /\ result[1] => result[2] = <<"Card ", card[1], ": Valid">>
        /\ ~result[1] =>
              /\ errors # <<>>
              /\ result[2] = <<"Card ", card[1], ": ">> \o JoinErrors(errors)

\* a valid card that is not the plain passing one
C5_Witness ==
    /\ Returned
    /\ result[1]
    /\ Tok(5, 2) = IntTok(75)

\* C6: a column whose length is not 5 gets exactly one error, the length
\* error naming its length, and no error of another kind; the other
\* columns get the errors the rules prescribe for them.
C6_LengthErrorOnly ==
    Returned =>
        \A k \in 1..5 :
            Len(Col(k)) # 5 =>
                /\ ErrorsOf(k) = <<LengthError(RuleName(k), Len(Col(k)))>>
                /\ \A j \in (1..5) \ {k} :
                      Len(Col(j)) = 5 => ErrorsOf(j) = PrescribedFor(j)

\* B has 6 tokens, two of them invalid, and N, of length 5, has errors
C6_Witness ==
    /\ Returned
    /\ Len(Col(1)) = 6
    /\ Tok(1, 1) = None
    /\ Tok(1, 6) = None
    /\ Len(Col(3)) = 5
    /\ Len(ErrorsOf(3)) > 1

\* C7 as stated: whenever the third value of the N column is a nonzero
\* integer, a center-mismatch error naming it is recorded.
C7_CenterMismatchAlways ==
    (Returned /\ Len(Col(3)) >= 3 /\ IsInt(3, 3) /\ Tok(3, 3)[1] # 0)
        => \E i \in 1..Len(errors) : errors[i] = CenterError("N", Tok(3, 3)[1])

\* C7 amended: when the N column has exactly 5 tokens and its token at
\* index 2 is a nonzero integer, exactly one center-mismatch error is
\* recorded and it names that value, whether or not the value is in 31-45;
\* the out-of-range and duplicate errors of the N column are those of its
\* other four positions only.
C7_CenterMismatchLen5 ==
    (Returned /\ Len(Col(3)) = 5 /\ IsInt(3, 3) /\ Tok(3, 3)[1] # 0)
        => /\ SelectSeq(ErrorsOf(3), IsCenterError)
                  = <<CenterError("N", Tok(3, 3)[1])>>
           /\ CountOf(3, IsRangeError)
                  = Cardinality({ p \in {1, 2, 4, 5} : IsInt(3, p) /\ ~InRange(3, p) })
           /\ CountOf(3, IsDuplicateError)
                  = Cardinality({ p \in {1, 2, 4, 5} : IsInt(3, p) /\ Repeats(3, p) })

\* the center holds 31, in range and equal to the first token of N
C7_Witness ==
    /\ Returned
    /\ Len(Col(3)) = 5
    /\ Tok(3, 3) = IntTok(31)
    /\ Tok(3, 1) = IntTok(31)

\* C8: error reporting is exhaustive.  The errors list is, column by
\* column in the order B, I, N, G, O and token by token, exactly the errors
\* the rules prescribe: one non-numeric error per invalid token, and per
\* integer token outside the free space an out-of-range error and,
\* independently, a duplicate error when an earlier token has its value;
\* the message of an invalid card is the list joined by "; ".
C8_ExhaustiveErrors ==
    Returned =>
        /\ \A k \in 1..5 : Len(Col(k)) = 5 => ErrorsOf(k) = PrescribedFor(k)
        /\ errors = ErrorsOf(1) \o ErrorsOf(2) \o ErrorsOf(3) \o ErrorsOf(4)
                        \o ErrorsOf(5)
        /\ errors # <<>> =>
              result[2] = <<"Card ", card[1], ": ">> \o JoinErrors(errors)

\* B holds the value 1 three times (two duplicate errors) and O holds 76
\* twice (the second is both out of range and a duplicate)
C8_Witness ==
    /\ Returned
    /\ Cardinality({ p \in 1..Len(Col(1)) : Tok(1, p) = IntTok(1) }) = 3
    /\ Len(Col(1)) = 5
    /\ CountOf(1, IsDuplicateError) = 2
    /\ CountOf(5, IsRangeError) = 2
    /\ CountOf(5, IsDuplicateError) = 2

\* C10 as stated: an invalid marker at the free-space position of a
\* length-5 N column is reported as a center mismatch and not as a
\* non-numeric value.
C10_InvalidCenterIsMismatch ==
    (Returned /\ Len(Col(3)) = 5 /\ ~IsInt(3, 3))
        => /\ CountOf(3, IsCenterError) = 1
           /\ CountOf(3, IsNonNumericError)
                  = Cardinality({ p \in {1, 2, 4, 5} : ~IsInt(3, p) })

\* C10 amended: an invalid marker at the free-space position of a length-5
\* N column is reported as a non-numeric value, like an invalid marker
\* anywhere else, and no center-mismatch error is recorded.
C10_InvalidCenterIsNonNumeric ==
    (Returned /\ Len(Col(3)) = 5 /\ ~IsInt(3, 3))
        => /\ CountOf(3, IsCenterError) = 0
           /\ CountOf(3, IsNonNumericError)
                  = Cardinality({ p \in 1..5 : ~IsInt(3, p) })

\* the center is the only invalid token of the N column
C10_Witness ==
    /\ Returned
    /\ Len(Col(3)) = 5
    /\ { p \in 1..5 : ~IsInt(3, p) } = {3}

----------------------------------------------------------------------------
(* Properties of the duplicate-marking pass, checked under SpecBatch        *)

Positions == 1..Len(cards)

\* cards i and j have the same five column token-sequences
SameContent(i, j) ==
    \A k \in 2..6 : cards[i][k] = cards[j][k]

\* the cards with the content of card i, card i included
ClassOf(i) == { j \in Positions : SameContent(i, j) }

\* the cards whose content another card of the batch has too
Duplicated == { i \in Positions : Cardinality(ClassOf(i)) >= 2 }

\* the elements of a set of positions in batch order
Ascending(S) ==
    [n \in 1..Cardinality(S) |->
        CHOOSE i \in S : Cardinality({ j \in S : j < i }) = n - 1]

\* the first members of the duplicated contents, in batch order
FirstMembers == Ascending({ i \in Duplicated : \A j \in ClassOf(i) : i <= j })

IdsOf(ps) == [n \in 1..Len(ps) |-> cards[ps[n]][1]]

\* what validate_card judged of card i, before the marking pass
Judged(i) == validate_card(cards[i])

BatchDone == vpc = "done" /\ cards # <<>>

\* C1: after the marking pass the reported groups are, one for one, the
\* contents that two or more cards share, each listing all the cards of
\* that content, so every such card is in exactly one group; every group
\* has at least 2 members; every such card is flagged invalid, those
\* validate_card judged valid included.
C1_DuplicatesGroupedAndInvalid ==
    BatchDone =>
        /\ Len(duplicate_groups) = Len(FirstMembers)
        /\ \A g \in 1..Len(duplicate_groups) :
              /\ duplicate_groups[g] = IdsOf(Ascending(ClassOf(FirstMembers[g])))
              /\ Len(duplicate_groups[g]) >= 2
        /\ \A i \in Duplicated :
              /\ Cardinality({ g \in 1..Len(FirstMembers) :
                                   i \in ClassOf(FirstMembers[g]) }) = 1
              /\ ~card_results[i][7]

\* two groups are reported, and a card judged valid is in one of them
C1_Witness ==
    /\ BatchDone
    /\ Len(duplicate_groups) = 2
    /\ \E i \in Duplicated : Judged(i)[1] /\ ~card_results[i][7]

\* the other members of the group of card i, by position, in batch order
OthersOf(i) == Ascending(ClassOf(i) \ {i})

\* C2: the message of every member of a duplicate group ends with
\* "Duplicate of card(s) " and the identifiers of all the other members of
\* its group, by position and in batch order, also when members share an
\* identifier.
C2_ListsAllOtherMembers ==
    BatchDone =>
        \A i \in Duplicated :
            card_results[i][8] =
                (IF Judged(i)[1] THEN <<"Valid but ">>
                 ELSE Judged(i)[2] \o <<"; ">>)
                    \o <<"Duplicate of card(s) ">> \o JoinIds(IdsOf(OthersOf(i)))

\* C9: the marking pass changes only flags and messages.  The results
\* keep the cards' number, order, identifiers and token-sequences, a step
\* never turns an invalid flag into a valid one, a card whose content is
\* unique keeps the flag and message validate_card gave it, and a member
\* of a duplicate group that was judged invalid has a message made of its
\* whole prior message, then "; Duplicate of card(s) " and identifiers of
\* other members of its group separated by ", ".
C9_OnlyFlagsAndMessagesChange ==
    /\ [](vpc \in {"fingerprint", "mark", "done"} =>
            /\ Len(card_results) = Len(cards)
            /\ \A i \in Positions :
                  /\ SubSeq(card_results[i], 1, 6) = cards[i]
                  /\ i \notin Duplicated =>
                        card_results[i] = cards[i] \o Judged(i))
    /\ [](BatchDone =>
            \A i \in Duplicated :
                ~Judged(i)[1] =>
                    LET msg == card_results[i][8]
                        n == Len(Judged(i)[2])
                    IN  /\ Len(msg) >= n + 2
                        /\ SubSeq(msg, 1, n + 2)
                               = Judged(i)[2] \o <<"; ", "Duplicate of card(s) ">>
                        /\ \A m \in (n + 3)..Len(msg) :
                              \/ msg[m] = ", "
                              \/ \E j \in ClassOf(i) \ {i} : msg[m] = cards[j][1])
    /\ [][\A i \in 1..Len(card_results) :
              /\ Len(card_results') >= Len(card_results)
              /\ SubSeq(card_results'[i], 1, 6) = SubSeq(card_results[i], 1, 6)
              /\ ~card_results[i][7] => ~card_results'[i][7]]_vars

\* two invalid cards share their content, a valid card is alone with its
\* content
C9_Witness ==
    /\ BatchDone
    /\ \E i \in Duplicated : ~Judged(i)[1] /\ Len(card_results[i][8]) > Len(Judged(i)[2])
    /\ \E i \in Positions \ Duplicated : card_results[i][7]

====
